---------------------------- MODULE Spec2Model ----------------------------
(***************************************************************************)
(* A model of src/main.py: the scanner simple_scan, the Pratt parser       *)
(* (PrattParser.parse_precedence / number / binary, with its explicit call *)
(* stack) and the stack interpreter interpret, run in sequence by main.    *)
(*                                                                         *)
(* Python sequences are 0-based, TLA+ sequences 1-based: the Python        *)
(* expression tokens[current] is tokens[current + 1] here.                 *)
(***************************************************************************)
EXTENDS Integers, Sequences, FiniteSets

VARIABLES
    source,     \* main: the source string, a sequence of characters
    phase,      \* main: "scan", "parse", "interpret", "done" or "error"
    tokens,     \* PrattParser.tokens
    current,    \* PrattParser.current (0-based cursor)
    bytecode,   \* PrattParser.bytecode
    frames,     \* the Python call stack below main during parser.parse_precedence(0)
    stack,      \* interpret: the operand stack
    ip,         \* interpret: 1-based position of the for loop in bytecode
    trace,      \* interpret: the stack snapshots printed by print_stack, in order
    raised      \* the exception that ended the run, if any

vars == <<source, phase, tokens, current, bytecode, frames, stack, ip, trace, raised>>

---------------------------------------------------------------------------
(* Bounds of the model *)

\* longest enumerated source string, in characters
MaxLen == 5

\* longest enumerated bytecode sequence handed directly to interpret
MaxCode == 4

---------------------------------------------------------------------------
(* Characters *)

\* U+00B2 SUPERSCRIPT TWO: str.isdigit() is True for it, int() rejects it
SuperscriptTwo == "U+00B2"

DecimalDigits == {"0", "1", "2", "3", "4", "5", "6", "7", "8", "9"}

\* str.isspace()
isspace(char) == char \in {" ", "\t", "\n", "\r"}

\* str.isdigit(): the decimal digits and the other characters of Unicode
\* numeric type Digit, of which SuperscriptTwo stands for all
isdigit(char) == char \in DecimalDigits \cup {SuperscriptTwo}

\* whether int(lexeme) returns (a one-character lexeme): decimal digits only
int_accepts(lexeme) == lexeme \in DecimalDigits

\* int(lexeme) for a lexeme int() accepts
int(lexeme) ==
    CASE lexeme = "0" -> 0
      [] lexeme = "1" -> 1
      [] lexeme = "2" -> 2
      [] lexeme = "3" -> 3
      [] lexeme = "4" -> 4
      [] lexeme = "5" -> 5
      [] lexeme = "6" -> 6
      [] lexeme = "7" -> 7
      [] lexeme = "8" -> 8
      [] lexeme = "9" -> 9

---------------------------------------------------------------------------
(* TokenKind *)

TokenKind == {"PLUS", "MULTIPLY", "NUMBER"}

\* TokenKind._member_names_, in declaration order
member_names == <<"PLUS", "MULTIPLY", "NUMBER">>

\* a plausible slip: MULTIPLY declared before PLUS
value_swapped(kind) ==
    CASE kind = "PLUS" -> 1
      [] kind = "MULTIPLY" -> 0
      [] kind = "NUMBER" -> 2

\* TokenKind.<kind>.value, which is also the precedence
value(kind) ==
    CASE kind = "PLUS" -> 0
      [] kind = "MULTIPLY" -> 1
      [] kind = "NUMBER" -> 2

\* a plausible slip: the recursion of binary uses the operator's own kind
increase_none(kind) == kind

\* a plausible slip: the successor wraps around instead of saturating
increase_wrap(kind) == member_names[((value(kind) + 1) % 3) + 1]

\* TokenKind.increase
increase(kind) ==
    LET v == value(kind) + 1
    IN  IF v >= value("NUMBER") THEN "NUMBER" ELSE member_names[v + 1]

Token(lexeme, kind) == [lexeme |-> lexeme, kind |-> kind]

---------------------------------------------------------------------------
(* Exceptions *)

NoError == [exc |-> "none", at |-> "none", arg |-> ""]

\* an exception of Python type exc, raised in function at, with argument arg
Raise(exc, at, arg) == [exc |-> exc, at |-> at, arg |-> arg]

---------------------------------------------------------------------------
(* simple_scan *)

\* one iteration of the for loop of simple_scan
RECURSIVE scan_from(_, _, _)
scan_from(src, i, toks) ==
    IF i > Len(src) THEN [raised |-> NoError, tokens |-> toks]
    ELSE LET char == src[i]
         IN  IF isspace(char) THEN scan_from(src, i + 1, toks)
             ELSE IF isdigit(char)
                  THEN scan_from(src, i + 1, Append(toks, Token(char, "NUMBER")))
             ELSE IF char = "+"
                  THEN scan_from(src, i + 1, Append(toks, Token(char, "PLUS")))
             ELSE IF char = "*"
                  THEN scan_from(src, i + 1, Append(toks, Token(char, "MULTIPLY")))
             ELSE [raised |-> Raise("ValueError", "simple_scan", char), tokens |-> <<>>]

simple_scan(src) == scan_from(src, 1, <<>>)

---------------------------------------------------------------------------
(* Bytecode instructions *)

ConstantInstruction(v) == [op |-> "CONST", value |-> v]
AddInstruction == [op |-> "ADD"]
MultiplyInstruction == [op |-> "MUL"]

---------------------------------------------------------------------------
(* PrattParser *)

None == "None"

\* a plausible slip: PLUS registered in the prefix slot instead of the infix slot
jumptable_plus_prefix(kind) ==
    CASE kind = "NUMBER" -> <<"number", None>>
      [] kind = "PLUS" -> <<"binary", None>>
      [] kind = "MULTIPLY" -> <<None, "binary">>

\* a plausible slip: MULTIPLY left out of the table's infix handlers
jumptable_no_multiply(kind) ==
    CASE kind = "NUMBER" -> <<"number", None>>
      [] kind = "PLUS" -> <<None, "binary">>
      [] kind = "MULTIPLY" -> <<None, None>>

\* PrattParser.jumptable: kind -> (prefix handler, infix handler)
jumptable(kind) ==
    CASE kind = "NUMBER" -> <<"number", None>>
      [] kind = "PLUS" -> <<None, "binary">>
      [] kind = "MULTIPLY" -> <<None, "binary">>

\* call-stack frames
PPFrame(pc, precedence) == [fn |-> "parse_precedence", pc |-> pc, precedence |-> precedence]
HandlerFrame(fn) == [fn |-> fn, pc |-> "entry"]
BinaryFrame(pc, operator) == [fn |-> "binary", pc |-> pc, operator |-> operator]

Top == frames[Len(frames)]
Below == SubSeq(frames, 1, Len(frames) - 1)

\* the frame on top of the call stack is fn
Running(fn) == phase = "parse" /\ frames # <<>> /\ Top.fn = fn


\* return from the function on top of the call stack; when parse_precedence(0)
\* returns to main, main goes on to call interpret(parser.bytecode)
Return ==
    /\ frames' = Below
    /\ phase' = IF Below = <<>> THEN "interpret" ELSE "parse"

\* an exception propagates out of main: the run ends
Abort(exception) ==
    /\ phase' = "error"
    /\ raised' = exception

\* PrattParser.emit
emit(instruction) == bytecode' = Append(bytecode, instruction)

\* a plausible slip: the bound check is off by one
exhausted_off_by_one == current >= Len(tokens) - 1

\* the guard of parse_precedence: the cursor is at or past the end
exhausted == current >= Len(tokens)

\* a plausible slip: parse_precedence without its guard, so that
\* self.tokens[self.current] raises IndexError at the end of the input
parse_precedence_enter_unguarded ==
    /\ Running("parse_precedence")
    /\ Top.pc = "entry"
    /\ IF exhausted
       THEN /\ Abort(Raise("IndexError", "prefix", ""))
            /\ UNCHANGED <<current, bytecode, frames>>
       ELSE LET start == tokens[current + 1]
                jump == jumptable(start.kind)[1]
            IN  IF jump = None
                THEN /\ Abort(Raise("TypeError", "prefix", start.lexeme))
                     /\ UNCHANGED <<current, bytecode, frames>>
                ELSE /\ frames' = Below \o <<PPFrame("loop", Top.precedence), HandlerFrame(jump)>>
                     /\ UNCHANGED <<phase, current, bytecode, raised>>
    /\ UNCHANGED <<source, tokens, stack, ip, trace>>

\* parse_precedence, from its entry to the call of the prefix handler
parse_precedence_enter ==
    /\ Running("parse_precedence")
    /\ Top.pc = "entry"
    /\ IF exhausted
       THEN /\ Return
            /\ UNCHANGED <<current, bytecode, raised>>
       ELSE LET start == tokens[current + 1]
                jump == jumptable(start.kind)[1]
            IN  IF jump = None
                THEN /\ Abort(Raise("TypeError", "prefix", start.lexeme))
                     /\ UNCHANGED <<current, bytecode, frames>>
                ELSE /\ frames' = Below \o <<PPFrame("loop", Top.precedence), HandlerFrame(jump)>>
                     /\ UNCHANGED <<phase, current, bytecode, raised>>
    /\ UNCHANGED <<source, tokens, stack, ip, trace>>

\* a plausible slip: number emits the token under the cursor without consuming it
number_no_advance ==
    /\ Running("number")
    /\ IF current >= Len(tokens)
       THEN /\ Return
            /\ UNCHANGED <<current, bytecode, raised>>
       ELSE LET lexeme == tokens[current + 1].lexeme
            IN  /\ current' = current
                /\ IF int_accepts(lexeme)
                   THEN /\ emit(ConstantInstruction(int(lexeme)))
                        /\ Return
                        /\ UNCHANGED raised
                   ELSE /\ Abort(Raise("ValueError", "number", lexeme))
                        /\ UNCHANGED <<bytecode, frames>>
    /\ UNCHANGED <<source, tokens, stack, ip, trace>>

\* PrattParser.number
number ==
    /\ Running("number")
    /\ IF current >= Len(tokens)
       THEN /\ Return
            /\ UNCHANGED <<current, bytecode, raised>>
       ELSE LET lexeme == tokens[current + 1].lexeme
            IN  /\ current' = current + 1
                /\ IF int_accepts(lexeme)
                   THEN /\ emit(ConstantInstruction(int(lexeme)))
                        /\ Return
                        /\ UNCHANGED raised
                   ELSE /\ Abort(Raise("ValueError", "number", lexeme))
                        /\ UNCHANGED <<bytecode, frames>>
    /\ UNCHANGED <<source, tokens, stack, ip, trace>>

\* a plausible slip: a strict comparison in the while condition
loop_condition_strict(precedence) ==
    /\ current < Len(tokens)
    /\ precedence < value(tokens[current + 1].kind)

\* the condition of the while loop of parse_precedence
loop_condition(precedence) ==
    /\ current < Len(tokens)
    /\ precedence <= value(tokens[current + 1].kind)

\* parse_precedence, one test of the while condition and, when it holds, the
\* call of the infix handler
parse_precedence_loop ==
    /\ Running("parse_precedence")
    /\ Top.pc = "loop"
    /\ IF loop_condition(Top.precedence)
       THEN LET tok == tokens[current + 1]
                jump == jumptable(tok.kind)[2]
            IN  IF jump = None
                THEN /\ Abort(Raise("TypeError", "infix", tok.lexeme))
                     /\ UNCHANGED frames
                ELSE /\ frames' = Append(frames, HandlerFrame(jump))
                     /\ UNCHANGED <<phase, raised>>
       ELSE /\ Return
            /\ UNCHANGED raised
    /\ UNCHANGED <<source, tokens, current, bytecode, stack, ip, trace>>

\* a plausible slip: binary steps over the operator and its operand at once
binary_skip_two ==
    /\ Running("binary")
    /\ Top.pc = "entry"
    /\ IF current >= Len(tokens)
       THEN /\ Return
            /\ UNCHANGED current
       ELSE LET operator == tokens[current + 1]
            IN  /\ current' = current + 2
                /\ frames' = Below \o <<BinaryFrame("emit", operator),
                                        PPFrame("entry", value(increase(operator.kind)))>>
                /\ UNCHANGED phase
    /\ UNCHANGED <<source, tokens, bytecode, stack, ip, trace, raised>>

\* PrattParser.binary, from its entry to the recursive call of parse_precedence
binary ==
    /\ Running("binary")
    /\ Top.pc = "entry"
    /\ IF current >= Len(tokens)
       THEN /\ Return
            /\ UNCHANGED current
       ELSE LET operator == tokens[current + 1]
            IN  /\ current' = current + 1
                /\ frames' = Below \o <<BinaryFrame("emit", operator),
                                        PPFrame("entry", value(increase(operator.kind)))>>
                /\ UNCHANGED phase
    /\ UNCHANGED <<source, tokens, bytecode, stack, ip, trace, raised>>

\* a plausible slip: the match statement lacks the case for PLUS
binary_emit_no_plus ==
    /\ Running("binary")
    /\ Top.pc = "emit"
    /\ CASE Top.operator.kind = "MULTIPLY" -> emit(MultiplyInstruction)
         [] OTHER -> UNCHANGED bytecode
    /\ Return
    /\ UNCHANGED <<source, tokens, current, stack, ip, trace, raised>>

\* PrattParser.binary, after the recursive call: the match statement
binary_emit ==
    /\ Running("binary")
    /\ Top.pc = "emit"
    /\ CASE Top.operator.kind = "MULTIPLY" -> emit(MultiplyInstruction)
         [] Top.operator.kind = "PLUS" -> emit(AddInstruction)
         [] OTHER -> UNCHANGED bytecode
    /\ Return
    /\ UNCHANGED <<source, tokens, current, stack, ip, trace, raised>>

---------------------------------------------------------------------------
(* interpret *)

\* a plausible slip: popping an empty stack yields 0 instead of raising
pop_default(stk) ==
    IF stk = <<>>
    THEN [ok |-> TRUE, value |-> 0, rest |-> <<>>]
    ELSE [ok |-> TRUE, value |-> stk[Len(stk)], rest |-> SubSeq(stk, 1, Len(stk) - 1)]

\* list.pop(): IndexError on the empty list
pop(stk) ==
    IF stk = <<>>
    THEN [ok |-> FALSE, value |-> 0, rest |-> stk]
    ELSE [ok |-> TRUE, value |-> stk[Len(stk)], rest |-> SubSeq(stk, 1, Len(stk) - 1)]

\* a plausible slip: the Multiply branch copied from the Add branch unchanged
arith_add_only(op, a, b) == a + b

\* a * b and a + b of the two arithmetic branches
arith(op, a, b) == IF op = "MUL" THEN a * b ELSE a + b

\* one iteration of the for loop of interpret
interpret_step ==
    /\ phase = "interpret"
    /\ ip <= Len(bytecode)
    /\ LET instruction == bytecode[ip]
       IN  IF instruction.op = "CONST"
           THEN LET new == Append(stack, instruction.value)
                IN  /\ stack' = new
                    /\ trace' = Append(trace, new)
                    /\ ip' = ip + 1
                    /\ UNCHANGED <<phase, raised>>
           ELSE LET b == pop(stack)
                    a == pop(b.rest)
                IN  IF b.ok /\ a.ok
                    THEN LET new == Append(a.rest, arith(instruction.op, a.value, b.value))
                         IN  /\ stack' = new
                             /\ trace' = Append(trace, new)
                             /\ ip' = ip + 1
                             /\ UNCHANGED <<phase, raised>>
                    ELSE /\ Abort(Raise("IndexError", "interpret", instruction.op))
                         /\ stack' = a.rest
                         /\ UNCHANGED <<trace, ip>>
    /\ UNCHANGED <<source, tokens, current, bytecode, frames>>

\* the for loop of interpret is exhausted: interpret returns None, main returns
interpret_return ==
    /\ phase = "interpret"
    /\ ip > Len(bytecode)
    /\ phase' = "done"
    /\ UNCHANGED <<source, tokens, current, bytecode, frames, stack, ip, trace, raised>>

---------------------------------------------------------------------------
(* main *)

\* main, lines 143-146: scan, construct the parser, call parse_precedence(0)
main_scan ==
    /\ phase = "scan"
    /\ LET r == simple_scan(source)
       IN  IF r.raised # NoError
           THEN /\ Abort(r.raised)
                /\ UNCHANGED <<tokens, frames>>
           ELSE /\ tokens' = r.tokens
                /\ frames' = <<PPFrame("entry", 0)>>
                /\ phase' = "parse"
                /\ UNCHANGED raised
    /\ current' = 0
    /\ bytecode' = <<>>
    /\ UNCHANGED <<source, stack, ip, trace>>

\* the source string hard-coded in main
MainSource == <<"1", " ", "+", " ", "2", " ", "*", " ", "3", " ", "+", " ", "4">>

\* the other inputs the specification works through
ExampleSources ==
    { MainSource,
      <<"1", " ", "+", " ", "2", " ", "+", " ", "3">>,
      <<"1", " ", "+", " ", "2", " ", "*", " ", "3">>,
      <<"+", "1">>,
      <<"1", " ", "#">>,
      <<"5">> }

\* the characters of the enumerated sources
InputChars == {" ", "+", "*", "#", SuperscriptTwo, "2", "3"}

BoundedSources == UNION { [1..n -> InputChars] : n \in 0..MaxLen }

Sources == BoundedSources \cup ExampleSources

Init ==
    /\ source \in Sources
    /\ phase = "scan"
    /\ tokens = <<>>
    /\ current = 0
    /\ bytecode = <<>>
    /\ frames = <<>>
    /\ stack = <<>>
    /\ ip = 1
    /\ trace = <<>>
    /\ raised = NoError

Next ==
    \/ main_scan
    \/ parse_precedence_enter
    \/ number
    \/ parse_precedence_loop
    \/ binary
    \/ binary_emit
    \/ interpret_step
    \/ interpret_return

Spec == Init /\ [][Next]_vars

\* main is one sequential thread: while a statement remains, it is executed
FairSpec == Spec /\ WF_vars(Next)

---------------------------------------------------------------------------
(* interpret on an arbitrary bytecode sequence *)

Instructions == {ConstantInstruction(2), ConstantInstruction(3), AddInstruction, MultiplyInstruction}

Programs == UNION { [1..n -> Instructions] : n \in 0..MaxCode }

InitInterp ==
    /\ source = <<>>
    /\ phase = "interpret"
    /\ tokens = <<>>
    /\ current = 0
    /\ bytecode \in Programs
    /\ frames = <<>>
    /\ stack = <<>>
    /\ ip = 1
    /\ trace = <<>>
    /\ raised = NoError

NextInterp ==
    \/ interpret_step
    \/ interpret_return

SpecInterp == InitInterp /\ [][NextInterp]_vars

---------------------------------------------------------------------------
(* Vocabulary of the properties *)

\* the tokens simple_scan returns for a source it accepts
TokensOf(src) == simple_scan(src).tokens

\* NUMBER tokens with decimal-digit lexemes alternating with PLUS / MULTIPLY
\* tokens, starting and ending with a NUMBER
WellFormed(toks) ==
    /\ Len(toks) % 2 = 1
    /\ \A i \in 1..Len(toks) :
          IF i % 2 = 1
          THEN toks[i].kind = "NUMBER" /\ toks[i].lexeme \in DecimalDigits
          ELSE toks[i].kind \in {"PLUS", "MULTIPLY"}

\* the value of a well-formed expression as a sum of products: sum holds the
\* terms closed so far, prod the product being built, i the next operator
RECURSIVE SumOfProducts(_, _, _, _)
SumOfProducts(toks, i, sum, prod) ==
    IF i > Len(toks) THEN sum + prod
    ELSE IF toks[i].kind = "PLUS"
         THEN SumOfProducts(toks, i + 2, sum + prod, int(toks[i + 1].lexeme))
         ELSE SumOfProducts(toks, i + 2, sum, prod * int(toks[i + 1].lexeme))

ExprValue(toks) == SumOfProducts(toks, 2, 0, int(toks[1].lexeme))

\* the parse has returned to main without raising
Parsed == phase \in {"interpret", "done"} \/ (phase = "error" /\ raised.at = "interpret")

Const(tok) == ConstantInstruction(int(tok.lexeme))

OpCode(kind) == IF kind = "PLUS" THEN AddInstruction ELSE MultiplyInstruction

\* a well-formed chain of at least two operands joined by the one operator kind
Chain(toks, kind) ==
    /\ WellFormed(toks)
    /\ Len(toks) >= 3
    /\ \A i \in 1..Len(toks) : i % 2 = 0 => toks[i].kind = kind

\* CONST x1, CONST x2, OP, CONST x3, OP, ..., CONST xn, OP
RECURSIVE LeftNested(_, _, _)
LeftNested(toks, i, code) ==
    IF i > Len(toks) THEN code
    ELSE LeftNested(toks, i + 2, code \o <<Const(toks[i + 1]), OpCode(toks[i].kind)>>)

ChainCode(toks) == LeftNested(toks, 2, <<Const(toks[1])>>)

---------------------------------------------------------------------------
(* C1 *)

\* C1: for every well-formed token sequence, parsing raises nothing and
\* interpreting the emitted bytecode raises nothing and ends with an operand
\* stack of exactly one element, the value of the expression with '*' binding
\* tighter than '+'.
C1_WellFormedValue ==
    (phase # "scan" /\ WellFormed(tokens)) =>
        /\ raised = NoError
        /\ phase = "done" => stack = <<ExprValue(tokens)>>

\* a well-formed expression using both operators has been evaluated
C1_Witness ==
    /\ phase = "done"
    /\ WellFormed(tokens)
    /\ Len(tokens) >= 5
    /\ \E i, j \in 1..Len(tokens) : tokens[i].kind = "PLUS" /\ tokens[j].kind = "MULTIPLY"
    /\ stack = <<ExprValue(tokens)>>

---------------------------------------------------------------------------
(* C2 *)

OnePlusTwoPlusThree == <<"1", " ", "+", " ", "2", " ", "+", " ", "3">>

\* C2: the tokens of "1 + 2 + 3" parse to CONST 1, CONST 2, ADD, CONST 3, ADD
\* with result 6; and any chain x1 op x2 op ... op xn over a single operator
\* parses to CONST x1, CONST x2, OP, CONST x3, OP, ..., CONST xn, OP.
C2_LeftAssociative ==
    /\ (Parsed /\ (Chain(tokens, "PLUS") \/ Chain(tokens, "MULTIPLY")))
          => bytecode = ChainCode(tokens)
    /\ (Parsed /\ source = OnePlusTwoPlusThree)
          => /\ bytecode = <<ConstantInstruction(1), ConstantInstruction(2), AddInstruction,
                             ConstantInstruction(3), AddInstruction>>
             /\ phase # "error"
             /\ phase = "done" => stack = <<6>>

\* a chain of three operands over one operator has been parsed and evaluated
C2_Witness ==
    /\ phase = "done"
    /\ Chain(tokens, "MULTIPLY")
    /\ Len(tokens) = 5
    /\ source # OnePlusTwoPlusThree
    /\ bytecode = ChainCode(tokens)

---------------------------------------------------------------------------
(* C3 *)

OnePlusTwoTimesThree == <<"1", " ", "+", " ", "2", " ", "*", " ", "3">>

\* a op1 b op2 c
Triple(toks, op1, op2) ==
    /\ WellFormed(toks)
    /\ Len(toks) = 5
    /\ toks[2].kind = op1
    /\ toks[4].kind = op2

\* C3: the tokens of "1 + 2 * 3" parse to CONST 1, CONST 2, CONST 3, MUL, ADD
\* with result 7; a + b * c parses to CONST a, CONST b, CONST c, MUL, ADD and
\* a * b + c to CONST a, CONST b, MUL, CONST c, ADD.
C3_Precedence ==
    /\ (Parsed /\ Triple(tokens, "PLUS", "MULTIPLY"))
          => bytecode = <<Const(tokens[1]), Const(tokens[3]), Const(tokens[5]),
                          MultiplyInstruction, AddInstruction>>
    /\ (Parsed /\ Triple(tokens, "MULTIPLY", "PLUS"))
          => bytecode = <<Const(tokens[1]), Const(tokens[3]), MultiplyInstruction,
                          Const(tokens[5]), AddInstruction>>
    /\ (Parsed /\ source = OnePlusTwoTimesThree)
          => /\ bytecode = <<ConstantInstruction(1), ConstantInstruction(2),
                             ConstantInstruction(3), MultiplyInstruction, AddInstruction>>
             /\ phase # "error"
             /\ phase = "done" => stack = <<7>>

\* a * b + c has been parsed: the recursive call started by MULTIPLY stopped at PLUS
C3_Witness ==
    /\ phase = "done"
    /\ Triple(tokens, "MULTIPLY", "PLUS")
    /\ bytecode[3] = MultiplyInstruction

---------------------------------------------------------------------------
(* C4 *)

MainBytecode ==
    <<ConstantInstruction(1), ConstantInstruction(2), ConstantInstruction(3),
      MultiplyInstruction, AddInstruction, ConstantInstruction(4), AddInstruction>>

MainTrace == << <<1>>, <<1, 2>>, <<1, 2, 3>>, <<1, 6>>, <<7>>, <<7, 4>>, <<11>> >>

\* C4: for the source hard-coded in main the emitted bytecode is CONST 1,
\* CONST 2, CONST 3, MUL, ADD, CONST 4, ADD; interpret executes it in order,
\* once each, and the snapshots after the instructions are [1], [1][2],
\* [1][2][3], [1][6], [7], [7][4], [11], ending with the single value 11.
C4_MainScenario ==
    (source = MainSource /\ phase # "scan") =>
        /\ raised = NoError
        /\ phase \in {"interpret", "done"} =>
              /\ bytecode = MainBytecode
              /\ ip \in 1..(Len(MainBytecode) + 1)
              /\ trace = SubSeq(MainTrace, 1, ip - 1)
              /\ stack = IF ip = 1 THEN <<>> ELSE MainTrace[ip - 1]
        /\ phase = "done" => (ip = Len(MainBytecode) + 1 /\ stack = <<11>>)

\* main has run to its end on its own source
C4_Witness ==
    /\ source = MainSource
    /\ phase = "done"
    /\ Len(trace) = 7

---------------------------------------------------------------------------
(* C5 *)

\* parse_precedence is about to run the body of its while loop: the infix
\* dispatch on the token under the cursor
InfixDispatch ==
    /\ Running("parse_precedence")
    /\ Top.pc = "loop"
    /\ loop_condition(Top.precedence)

\* the token under the cursor has no infix handler
NoInfixHandler == jumptable(tokens[current + 1].kind)[2] = None

\* no NUMBER token directly follows another NUMBER token
NoAdjacentNumbers(toks) ==
    \A i \in 1..(Len(toks) - 1) : ~(toks[i].kind = "NUMBER" /\ toks[i + 1].kind = "NUMBER")

\* C5 as stated: for every token sequence over {NUMBER, PLUS, MULTIPLY}, no
\* execution of parse_precedence reaches the infix dispatch with the cursor on
\* a token whose kind has no infix handler.
C5_Unreachable == ~(InfixDispatch /\ NoInfixHandler)

\* C5 as amended: the infix dispatch is reached on a token without an infix
\* handler only when that token is a NUMBER directly following a NUMBER; for
\* token sequences with no two adjacent NUMBER tokens it is never reached.
C5_OnlyAdjacentNumbers ==
    /\ (InfixDispatch /\ NoInfixHandler) =>
          /\ current >= 1
          /\ tokens[current].kind = "NUMBER"
          /\ tokens[current + 1].kind = "NUMBER"
    /\ NoAdjacentNumbers(tokens) => raised.at # "infix"

\* the infix dispatch inside the recursive call made for PLUS, on a MULTIPLY
\* token of a sequence without adjacent NUMBER tokens
C5_Witness ==
    /\ InfixDispatch
    /\ NoAdjacentNumbers(tokens)
    /\ Top.precedence = 1
    /\ tokens[current + 1].kind = "MULTIPLY"

---------------------------------------------------------------------------
(* C6 *)

\* C6: interpret completes normally only when the final operand stack holds
\* exactly one value; zero values or more than one are signalled as an error.
C6_FinalStackChecked == phase = "done" => Len(stack) = 1

---------------------------------------------------------------------------
(* C7 *)

\* interpret is about to execute Add or Multiply with fewer than 2 operands
Underflow ==
    /\ phase = "interpret"
    /\ ip <= Len(bytecode)
    /\ bytecode[ip].op \in {"ADD", "MUL"}
    /\ Len(stack) < 2

\* interpreting never underflows and ends with exactly one value
Balanced ==
    /\ ~Underflow
    /\ raised.exc # "IndexError"
    /\ phase = "done" => Len(stack) = 1

\* C7 as stated: for every token sequence (the empty one included) on which
\* parse_precedence(0) completes without raising, interpreting the bytecode
\* never executes Add or Multiply with fewer than 2 operands and ends with
\* exactly one value on the stack.
C7_EveryParsedSequence == Parsed => Balanced

\* C7 as amended: the same, for every token sequence that ends with a NUMBER
\* token and on which parse_precedence(0) completes without raising.
C7_ParsedEndingInNumber ==
    (Parsed /\ tokens # <<>> /\ tokens[Len(tokens)].kind = "NUMBER") => Balanced

\* a sequence with an operator, ending in a NUMBER, was parsed and interpreted
C7_Witness ==
    /\ phase = "done"
    /\ Len(tokens) >= 3
    /\ tokens[Len(tokens)].kind = "NUMBER"
    /\ Len(stack) = 1

---------------------------------------------------------------------------
(* C8 *)

\* parse_precedence has been entered with the cursor on a PLUS or MULTIPLY token
EnteredOnOperator ==
    /\ Running("parse_precedence")
    /\ Top.pc = "entry"
    /\ current < Len(tokens)
    /\ tokens[current + 1].kind \in {"PLUS", "MULTIPLY"}

\* C8: whenever parse_precedence is entered with the cursor on a PLUS or
\* MULTIPLY token the parse aborts with an error, and that call emits no
\* instruction and consumes no token before failing; when the operator is the
\* first token the bytecode is still empty.
C8_OperatorInPrefixPosition ==
    [][EnteredOnOperator =>
          /\ phase' = "error"
          /\ raised'.exc = "TypeError"
          /\ raised'.at = "prefix"
          /\ bytecode' = bytecode
          /\ current' = current
          /\ current = 0 => bytecode' = <<>>]_vars

\* the parse failed on an operator directly after another operator
C8_Witness ==
    /\ phase = "error"
    /\ raised.at = "prefix"
    /\ current >= 2
    /\ tokens[current].kind \in {"PLUS", "MULTIPLY"}
    /\ tokens[current + 1].kind \in {"PLUS", "MULTIPLY"}

---------------------------------------------------------------------------
(* C9 *)

\* C9: when interpret reaches Add or Multiply with fewer than 2 elements on
\* the stack, execution fails with an error at that instruction: nothing is
\* pushed for it, no snapshot is made, and no later instruction is executed.
C9_StackUnderflow ==
    [][/\ Underflow =>
             /\ phase' = "error"
             /\ raised'.exc = "IndexError"
             /\ Len(stack') <= Len(stack)
             /\ stack' = SubSeq(stack, 1, Len(stack'))
             /\ ip' = ip
             /\ trace' = trace
       /\ phase = "error" => FALSE]_vars

\* execution failed on an arithmetic instruction that later instructions follow
C9_Witness ==
    /\ phase = "error"
    /\ raised.exc = "IndexError"
    /\ ip > 1
    /\ ip < Len(bytecode)

---------------------------------------------------------------------------
(* C10 *)

\* whitespace, a decimal digit, '+' or '*'
Accepted(char) == isspace(char) \/ char \in DecimalDigits \/ char \in {"+", "*"}

Offending(src) == {i \in 1..Len(src) : ~Accepted(src[i])}

FirstOffending(src) == CHOOSE i \in Offending(src) : \A j \in Offending(src) : i <= j

\* C10: simple_scan fails at the first character that is not whitespace, a
\* decimal digit, '+' or '*', with an error naming it, and returns no tokens,
\* so the parser is never started and no bytecode is emitted.
C10_ScanRejects ==
    (phase # "scan" /\ Offending(source) # {}) =>
        /\ phase = "error"
        /\ raised = Raise("ValueError", "simple_scan", source[FirstOffending(source)])
        /\ tokens = <<>>
        /\ frames = <<>>
        /\ bytecode = <<>>

---------------------------------------------------------------------------
(* C11 *)

\* a single NUMBER token with a decimal-digit lexeme
SingleNumber(toks) ==
    /\ Len(toks) = 1
    /\ toks[1].kind = "NUMBER"
    /\ toks[1].lexeme \in DecimalDigits

\* C11: for a single NUMBER token with digit lexeme d, parse_precedence(0)
\* emits exactly CONST d and interpret ends with the single value d, having
\* executed that one instruction only (no Add, no Multiply); "5" gives CONST 5
\* and 5.
C11_SingleNumber ==
    /\ (phase # "scan" /\ SingleNumber(tokens)) =>
          /\ raised = NoError
          /\ Parsed => bytecode = <<Const(tokens[1])>>
          /\ phase = "done" =>
                /\ stack = <<int(tokens[1].lexeme)>>
                /\ trace = << <<int(tokens[1].lexeme)>> >>
    /\ (source = <<"5">> /\ phase = "done") =>
          /\ bytecode = <<ConstantInstruction(5)>>
          /\ stack = <<5>>

\* a single-token input other than "5" has been parsed and interpreted
C11_Witness ==
    /\ phase = "done"
    /\ SingleNumber(tokens)
    /\ source # <<"5">>
    /\ stack = <<int(tokens[1].lexeme)>>

---------------------------------------------------------------------------
(* C12 *)

\* C12: in every reachable state 0 <= current <= len(tokens), and no step
\* decreases the cursor: each step leaves it unchanged or advances it by
\* exactly one.
C12_CursorMonotone ==
    /\ [](0 <= current /\ current <= Len(tokens))
    /\ [][current' = current \/ current' = current + 1]_vars

\* the cursor has been advanced to the very end of a longer token sequence,
\* inside nested calls
C12_Witness ==
    /\ phase = "parse"
    /\ Len(tokens) >= 4
    /\ current = Len(tokens)
    /\ Len(frames) >= 3

---------------------------------------------------------------------------
(* C13 *)

\* parse_precedence has been entered with the cursor at or past the end
EnteredAtEnd ==
    /\ Running("parse_precedence")
    /\ Top.pc = "entry"
    /\ current >= Len(tokens)

\* a well-formed expression followed by one more operator
TrailingOperator(toks) ==
    /\ Len(toks) >= 2
    /\ WellFormed(SubSeq(toks, 1, Len(toks) - 1))
    /\ toks[Len(toks)].kind \in {"PLUS", "MULTIPLY"}

\* the instructions of bytecode that are the instruction ins
Occurrences(code, ins) == Cardinality({i \in 1..Len(code) : code[i] = ins})

\* the tokens of toks that are of kind kind
KindCount(toks, kind) == Cardinality({i \in 1..Len(toks) : toks[i].kind = kind})

\* C13: parse_precedence entered with the cursor at or past the end returns
\* at once without raising, emitting or consuming anything; hence for a token
\* sequence ending in an operator the recursive call made by binary returns
\* empty-handed, binary still emits the operator's instruction, and
\* parse_precedence(0) completes without any error.
C13_ReturnsAtEnd ==
    /\ [][EnteredAtEnd =>
             /\ frames' = Below
             /\ phase' # "error"
             /\ raised' = NoError
             /\ bytecode' = bytecode
             /\ current' = current]_vars
    /\ [](TrailingOperator(tokens) =>
             /\ raised.at \notin {"prefix", "infix", "number"}
             /\ Parsed =>
                   /\ Occurrences(bytecode, AddInstruction) = KindCount(tokens, "PLUS")
                   /\ Occurrences(bytecode, MultiplyInstruction) = KindCount(tokens, "MULTIPLY")
                   /\ Len(tokens) = 2 =>
                         bytecode = <<Const(tokens[1]), OpCode(tokens[2].kind)>>)

\* the recursive call made by binary for a trailing operator has returned
\* empty-handed and binary is about to emit
C13_Witness ==
    /\ TrailingOperator(tokens)
    /\ Running("binary")
    /\ Top.pc = "emit"
    /\ current = Len(tokens)
    /\ Top.operator = tokens[Len(tokens)]
    /\ Len(bytecode) = Len(tokens) - 1

---------------------------------------------------------------------------
(* C14 *)

\* a handler (number or binary) is about to run its body
HandlerEntered ==
    \/ Running("number")
    \/ Running("binary") /\ Top.pc = "entry"

\* the handler invocations made so far: those that have returned have emitted
\* one instruction each, the others are still on the call stack
HandlerInvocations ==
    Len(bytecode) + Cardinality({i \in 1..Len(frames) : frames[i].fn \in {"number", "binary"}})

\* C14: parse_precedence(0) terminates (returns or raises) on every token
\* sequence; every prefix handler invocation and every iteration of the infix
\* loop advances the cursor by one token, so the number of handler
\* invocations never exceeds the number of tokens.
C14_ParseTerminates ==
    /\ <>(phase \notin {"scan", "parse"})
    /\ [][HandlerEntered => current' = current + 1]_vars
    /\ [](HandlerInvocations <= Len(tokens))

\* the parse of a sequence of at least four tokens has returned to main after
\* as many handler invocations as there are tokens
C14_Witness ==
    /\ phase = "interpret"
    /\ ip = 1
    /\ Len(tokens) >= 4
    /\ HandlerInvocations = Len(tokens)

---------------------------------------------------------------------------
(* TokenKind.increase on the kinds of an arbitrary token sequence *)

\* one token of each kind
KindTokens == {Token("+", "PLUS"), Token("*", "MULTIPLY"), Token("2", "NUMBER")}

TokenSequences == UNION { [1..n -> KindTokens] : n \in 0..MaxLen }

\* the activation record of a call of increase that has returned
IncreaseFrame(self, result) == [fn |-> "increase", self |-> self, result |-> result]

InitIncrease ==
    /\ source = <<>>
    /\ phase = "increase"
    /\ tokens \in TokenSequences
    /\ current = 0
    /\ bytecode = <<>>
    /\ frames = <<>>
    /\ stack = <<>>
    /\ ip = 1
    /\ trace = <<>>
    /\ raised = NoError

\* token.kind.increase() for the token under the cursor; the call and its
\* result are recorded, the cursor moves on
increase_call ==
    /\ phase = "increase"
    /\ current < Len(tokens)
    /\ LET self == tokens[current + 1].kind
       IN  frames' = Append(frames, IncreaseFrame(self, increase(self)))
    /\ current' = current + 1
    /\ UNCHANGED <<source, phase, tokens, bytecode, stack, ip, trace, raised>>

NextIncrease == increase_call

SpecIncrease == InitIncrease /\ [][NextIncrease]_vars

---------------------------------------------------------------------------
(* C15 *)

\* the precedence order PLUS < MULTIPLY < NUMBER
PrecedenceOrder == value("PLUS") < value("MULTIPLY") /\ value("MULTIPLY") < value("NUMBER")

\* C15: increase is a saturating successor on the order PLUS < MULTIPLY <
\* NUMBER: PLUS gives MULTIPLY, MULTIPLY gives NUMBER, NUMBER gives NUMBER;
\* the result is a member of the enumeration, never exceeds NUMBER, and is
\* strictly greater than the argument for every kind but NUMBER.
C15_SaturatingSuccessor ==
    /\ PrecedenceOrder
    /\ \A i \in 1..Len(frames) :
          LET self == frames[i].self
              result == frames[i].result
          IN  /\ self = "PLUS" => result = "MULTIPLY"
              /\ self = "MULTIPLY" => result = "NUMBER"
              /\ self = "NUMBER" => result = "NUMBER"
              /\ result \in TokenKind
              /\ value(result) <= value("NUMBER")
              /\ self # "NUMBER" => value(result) > value(self)

\* increase has been called on each of the three kinds, NUMBER included
C15_Witness ==
    /\ phase = "increase"
    /\ \A kind \in TokenKind : \E i \in 1..Len(frames) : frames[i].self = kind
    /\ \E i \in 1..Len(frames) : frames[i].self = "NUMBER" /\ frames[i].result = "NUMBER"

---------------------------------------------------------------------------
(* C16 *)

\* the Constant instructions of code, in order
Constants(code) == SelectSeq(code, LAMBDA ins : ins.op = "CONST")

\* C16: whenever the top-level call parse_precedence(0) has returned without
\* raising, every token has been consumed and one instruction has been emitted
\* per token: a Constant per NUMBER, an Add per PLUS, a Multiply per MULTIPLY.
C16_OneInstructionPerToken ==
    Parsed =>
        /\ current = Len(tokens)
        /\ Len(bytecode) = Len(tokens)
        /\ Len(Constants(bytecode)) = KindCount(tokens, "NUMBER")
        /\ Occurrences(bytecode, AddInstruction) = KindCount(tokens, "PLUS")
        /\ Occurrences(bytecode, MultiplyInstruction) = KindCount(tokens, "MULTIPLY")

\* parse_precedence(0) has just returned on a sequence with both operators
C16_Witness ==
    /\ phase = "interpret"
    /\ ip = 1
    /\ KindCount(tokens, "PLUS") >= 1
    /\ KindCount(tokens, "MULTIPLY") >= 1
    /\ Len(bytecode) = Len(tokens)

---------------------------------------------------------------------------
(* C17 *)

\* the NUMBER tokens consumed so far, in token order
ConsumedNumbers == SelectSeq(SubSeq(tokens, 1, current), LAMBDA tok : tok.kind = "NUMBER")

\* C17, first half: at every point of a parse the Constant instructions, in
\* emission order, carry exactly the integer values of the NUMBER tokens
\* consumed so far, in token order.
C17_ConstantsFollowTokens ==
    LET consts == Constants(bytecode)
        nums == ConsumedNumbers
    IN  /\ Len(consts) = Len(nums)
        /\ \A i \in 1..Len(nums) :
              /\ int_accepts(nums[i].lexeme)
              /\ consts[i].value = int(nums[i].lexeme)

\* C17, second half: instructions already emitted are never changed or
\* removed by later steps.
C17_AppendOnly ==
    [][/\ Len(bytecode') >= Len(bytecode)
       /\ SubSeq(bytecode', 1, Len(bytecode)) = bytecode]_vars

====
